---- MODULE Spec2Model ----
(***************************************************************************)
(* Model of the ingestion / ranking backend:                               *)
(*   app/services/youtube_service.py  YouTubeService (credential rotation, *)
(*                                    quota ledger, fetch_videos)          *)
(*   app/main.py                      comprehensive_fetch_job, get_feed    *)
(*   app/feed_routes.py               get_feed (multi-level fallback)      *)
(* Time is modelled at the granularity the code compares it at: the UTC    *)
(* date (datetime.date()), an integer day number.                          *)
(***************************************************************************)
EXTENDS Integers, Sequences, FiniteSets, TLC

\* ------------------------------------------------------------------ bounds
NumKeys == 2          \* len(settings.YOUTUBE_API_KEYS)
MaxDay == 1           \* UTC days pass up to this day number
NumCombos == 2        \* len(NICHES) * len(STATES) * len(LANGUAGES) of one job
MaxVideos == 2        \* videos the provider has, where the feed is checked
MaxLimit == 2         \* the largest `limit` of a feed request
MaxRuns == 2          \* runs of a job, where the scheduler fires it again

\* --------------------------------------------------------- program constants
QUOTA_LIMIT == 9500
SEARCH_COST == 100
DETAIL_COST == 1
PENALTY_COST == 10000

Workers == {"scheduled", "manual"}
KeyIx == 0 .. (NumKeys - 1)
NoKey == -1
NoUsage == [api_key |-> NoKey, daily_quota_used |-> 0, last_used |-> 0]

\* ------------------------------------------------------- configuration
\* app/constants.py: the job visits NICHES x STATES x LANGUAGES, niche-major
NICHES == <<"news">>
STATES == <<"Kerala", "Goa">>
LANGUAGES == <<"Malayalam", "Hindi">>
AllCombos ==
    [i \in 1 .. (Len(NICHES) * Len(STATES) * Len(LANGUAGES)) |->
        [niche |-> NICHES[((i - 1) \div (Len(STATES) * Len(LANGUAGES))) + 1],
         state |-> STATES[(((i - 1) \div Len(LANGUAGES)) % Len(STATES)) + 1],
         language |-> LANGUAGES[((i - 1) % Len(LANGUAGES)) + 1]]]
\* the i-th combination of a job
Combo(i) == AllCombos[((i - 1) % Len(AllCombos)) + 1]

\* a field left out of a request or of a segmentation key (None)
Unset == ""
\* the segmentation keys of the ranking index: GLOBAL, STATE x state,
\* LANGUAGE x language, STATE_LANGUAGE x (state, language)
SegKeys ==
    <<[viral_type |-> "GLOBAL", state |-> Unset, language |-> Unset]>>
    \o [i \in 1 .. Len(STATES) |->
          [viral_type |-> "STATE", state |-> STATES[i], language |-> Unset]]
    \o [i \in 1 .. Len(LANGUAGES) |->
          [viral_type |-> "LANGUAGE", state |-> Unset, language |-> LANGUAGES[i]]]
    \o [i \in 1 .. (Len(STATES) * Len(LANGUAGES)) |->
          [viral_type |-> "STATE_LANGUAGE",
           state |-> STATES[((i - 1) \div Len(LANGUAGES)) + 1],
           language |-> LANGUAGES[((i - 1) % Len(LANGUAGES)) + 1]]]
NumSegKeys == Len(SegKeys)

\* ------------------------------------------------------------ the provider
\* a duration token (contentDetails.duration), as its characters
PT30S == <<"P", "T", "3", "0", "S">>
PT5M == <<"P", "T", "5", "M">>
PT1M30S == <<"P", "T", "1", "M", "3", "0", "S">>
\* the items the videos endpoint can return; published_at in hours, on the
\* clock on which midnight of day d is hour 24 * d
ProviderVideos ==
    <<[id |-> "v1", channelId |-> "c1", channelTitle |-> "Alpha", publishedAt |-> -1,
       viewCount |-> 3600, likeCount |-> 0, commentCount |-> 0, duration |-> PT5M],
      [id |-> "v2", channelId |-> "c1", channelTitle |-> "Alpha2", publishedAt |-> -10,
       viewCount |-> 1000, likeCount |-> 100, commentCount |-> 50, duration |-> PT30S],
      [id |-> "v3", channelId |-> "c2", channelTitle |-> "Beta", publishedAt |-> -1,
       viewCount |-> 3600, likeCount |-> 0, commentCount |-> 0, duration |-> PT1M30S],
      [id |-> "v4", channelId |-> "c2", channelTitle |-> "Beta", publishedAt |-> -2,
       viewCount |-> 0, likeCount |-> 5, commentCount |-> 0, duration |-> PT30S]>>
ChannelIds == {ProviderVideos[i].channelId : i \in 1 .. Len(ProviderVideos)}
FirstVideos(n) ==
    {ProviderVideos[i] : i \in 1 .. (IF n < Len(ProviderVideos) THEN n ELSE Len(ProviderVideos))}
NoDoc == [channel_id |-> "none"]

VARIABLES
    today,              \* datetime.utcnow().date()
    nCombos,            \* configuration: combinations of one job
    catalogue,          \* the items the provider has
    videos,             \* the videos collection, in its natural order
    channels,           \* the channels collection, by channel_id
    video_ids,          \* the local `video_ids` of each job's fetch_videos
    feed,               \* the last feed request and its answer
    api_key_usage,      \* the api_key_usage collection, one document per key
    pc,                 \* where each job is
    current_key_index,  \* YouTubeService.current_key_index of each job's service
    scanned,            \* iterations done of the loop of get_next_active_key
    usage,              \* the local `usage` / `key_usage` document of each job
    comboIx,            \* combinations of the job's nested loop already fetched
    retries,            \* depth of the recursion of fetch_videos (line 93)
    lastSel,            \* observation: the last get_next_active_key call of each job
    selLog,             \* observation: results of the calls since the last charge
    chargedToday,       \* observation: sum of the costs charged to a key on this UTC day
    penalToday,         \* observation: keys charged the 403 penalty on this UTC day
    viral_index,        \* the viral_index collection: the rank entries of each segmentation key
    keyIx,              \* segmentation keys the job's index rebuild has already replaced
    fetched,            \* observation: the combinations this run of the job called fetch_videos for
    sighted,            \* observation: the video_data of the last ingestion that saw each video id
    runs,               \* observation: how the runs of each job ended, oldest first
    users,              \* the users collection, in its natural order
    reg                 \* where each register_user request is, and how the last one ended

vars == <<today, nCombos, catalogue, videos, channels, video_ids, feed, api_key_usage, pc, current_key_index, scanned, usage, comboIx,
          retries, lastSel, selLog, chargedToday, penalToday, viral_index, keyIx, fetched,
          sighted, runs, users, reg>>

\* ------------------------------------------------------------ the rotator
\* a credential is exhausted when daily_quota_used >= 9500 (line 57)
HasQuotaOff(u) == u.daily_quota_used <= QUOTA_LIMIT
HasQuota(u) == u.daily_quota_used < QUOTA_LIMIT

\* usage["last_used"].date() < now.date() (line 50)
IsNewDay(u, now) == u.last_used < now

\* self.current_key_index = (self.current_key_index + 1) % len(self.api_keys)
NextIndexStuck(i) == i
NextIndex(i) == (i + 1) % NumKeys

\* the document find_one({"api_key": key, "is_active": True}) returns, as the
\* local dict of the caller
FindActive(k) ==
    IF api_key_usage[k].is_active
    THEN [api_key |-> k,
          daily_quota_used |-> api_key_usage[k].daily_quota_used,
          last_used |-> api_key_usage[k].last_used]
    ELSE NoUsage

\* update_one({"_id": ..}, {"$set": {"daily_quota_used": 0, "last_used": now}})
ResetQuotaNoStamp(store, k, now) ==
    [store EXCEPT ![k].daily_quota_used = 0]
ResetQuota(store, k, now) ==
    [store EXCEPT ![k].daily_quota_used = 0, ![k].last_used = now]

\* update_one({"_id": ..}, {"$inc": {"daily_quota_used": cost},
\*                          "$set": {"last_used": utcnow()}})
IncQuota(store, k, cost, now) ==
    [store EXCEPT ![k].daily_quota_used = @ + cost, ![k].last_used = now]

\* ------------------------------------------------- what a call should do
\* quota of key k as the lazy daily reset would leave it on day d
EffQuota(store, d, k) ==
    IF store[k].last_used < d THEN 0 ELSE store[k].daily_quota_used
Usable(store, d, k) ==
    store[k].is_active /\ EffQuota(store, d, k) < QUOTA_LIMIT
AllUsable(store, d) == \A k \in KeyIx : Usable(store, d, k)
\* the first usable key in cyclic order from cursor c, NoKey when there is none
FirstUsable(store, d, c) ==
    IF \E k \in KeyIx : Usable(store, d, k)
    THEN LET off == CHOOSE n \in 0 .. (NumKeys - 1) :
                      /\ Usable(store, d, (c + n) % NumKeys)
                      /\ \A m \in 0 .. (n - 1) : ~Usable(store, d, (c + m) % NumKeys)
         IN (c + off) % NumKeys
    ELSE NoKey

\* ------------------------------------------------------------- the scoring
\* Python's floats, as exact rationals [n, d] in lowest terms with d > 0
RECURSIVE GCD(_, _)
GCD(a, b) == IF b = 0 THEN a ELSE GCD(b, a % b)
Abs(x) == IF x < 0 THEN -x ELSE x
Rat(n, d) ==
    LET g == GCD(Abs(n), Abs(d))
        sgn == IF d < 0 THEN -1 ELSE 1
    IN [n |-> sgn * (n \div g), d |-> sgn * (d \div g)]
RMul(a, b) == Rat(a.n * b.n, a.d * b.d)
RDiv(a, b) == Rat(a.n * b.d, a.d * b.n)
RAdd(a, b) == Rat(a.n * b.d + b.n * a.d, a.d * b.d)
RLess(a, b) == a.n * b.d < b.n * a.d
RMax(a, b) == IF RLess(a, b) THEN b ELSE a

\* datetime.utcnow(), in hours
NowHours == 24 * today

Contains(seq, ch) == \E i \in 1 .. Len(seq) : seq[i] = ch

\* state_lang_map (line 164)
state_lang_map ==
    [st \in {"Maharashtra", "Tamil Nadu", "Andhra Pradesh", "Telangana", "Karnataka",
             "Kerala", "West Bengal", "Gujarat", "Punjab"} |->
        CASE st = "Maharashtra" -> "Marathi"
          [] st = "Tamil Nadu" -> "Tamil"
          [] st = "Andhra Pradesh" -> "Telugu"
          [] st = "Telangana" -> "Telugu"
          [] st = "Karnataka" -> "Kannada"
          [] st = "Kerala" -> "Malayalam"
          [] st = "West Bengal" -> "Bengali"
          [] st = "Gujarat" -> "Gujarati"
          [] st = "Punjab" -> "Punjabi"]

\* calculate_viral_score (lines 154-168), at the clock `now`
ScoreWithoutEngagement(video_data, now) ==
    LET age_hours == RMax(Rat(now - video_data.published_at, 1), Rat(1, 10))
        score == RDiv(Rat(video_data.view_count, 1), age_hours)
        score2 == IF video_data.is_short THEN RMul(score, Rat(3, 2)) ELSE score
    IN IF /\ video_data.state \in DOMAIN state_lang_map
          /\ video_data.language = state_lang_map[video_data.state]
       THEN RMul(score2, Rat(6, 5))
       ELSE score2
ScoreShortDoubled(video_data, now) ==
    LET age_hours == RMax(Rat(now - video_data.published_at, 1), Rat(1, 10))
        views_per_hour == RDiv(Rat(video_data.view_count, 1), age_hours)
        engagement_ratio ==
            IF video_data.view_count > 0
            THEN Rat(video_data.like_count + video_data.comment_count * 2,
                     video_data.view_count)
            ELSE Rat(0, 1)
        score == RMul(views_per_hour, RAdd(Rat(1, 1), RMul(engagement_ratio, Rat(10, 1))))
        score2 == IF video_data.is_short THEN RMul(score, Rat(2, 1)) ELSE score
    IN IF /\ video_data.state \in DOMAIN state_lang_map
          /\ video_data.language = state_lang_map[video_data.state]
       THEN RMul(score2, Rat(6, 5))
       ELSE score2
calculate_viral_score(video_data, now) ==
    LET age_hours == RMax(Rat(now - video_data.published_at, 1), Rat(1, 10))
        views_per_hour == RDiv(Rat(video_data.view_count, 1), age_hours)
        engagement_ratio ==
            IF video_data.view_count > 0
            THEN Rat(video_data.like_count + video_data.comment_count * 2,
                     video_data.view_count)
            ELSE Rat(0, 1)
        score == RMul(views_per_hour, RAdd(Rat(1, 1), RMul(engagement_ratio, Rat(10, 1))))
        score2 == IF video_data.is_short THEN RMul(score, Rat(3, 2)) ELSE score
    IN IF /\ video_data.state \in DOMAIN state_lang_map
          /\ video_data.language = state_lang_map[video_data.state]
       THEN RMul(score2, Rat(6, 5))
       ELSE score2

\* ------------------------------------------------------------ the stores
\* channels_collection.update_one({..}, {"$setOnInsert": {..}}, upsert=True)
UpsertChannelOverwrite(chs, item, state, language) ==
    [chs EXCEPT ![item.channelId] =
        [channel_id |-> item.channelId, channel_name |-> item.channelTitle,
         language |-> language, primary_state |-> state, subscriber_count |-> 0]]
UpsertChannel(chs, item, state, language) ==
    IF chs[item.channelId] = NoDoc
    THEN [chs EXCEPT ![item.channelId] =
            [channel_id |-> item.channelId, channel_name |-> item.channelTitle,
             language |-> language, primary_state |-> state, subscriber_count |-> 0]]
    ELSE chs

\* video_data of _process_video_item (lines 137-150); the fields copied
\* verbatim from the snippet (title, description, thumbnail) follow video_id
VideoData(item, niche, state, language) ==
    LET data == [video_id |-> item.id, channel_id |-> item.channelId,
                 channel_title |-> item.channelTitle,
                 niche |-> niche, state |-> state, language |-> language,
                 published_at |-> item.publishedAt,
                 view_count |-> item.viewCount, like_count |-> item.likeCount,
                 comment_count |-> item.commentCount,
                 is_short |-> Contains(item.duration, "S") /\ ~Contains(item.duration, "M"),
                 duration |-> item.duration,
                 created_at |-> today]
    IN [f \in DOMAIN data \cup {"viral_score"} |->
          IF f = "viral_score" THEN calculate_viral_score(data, NowHours) ELSE data[f]]

\* videos_collection.update_one({"video_id": ..}, {"$set": video_data}, upsert=True)
UpsertVideoInsertOnly(vs, data) ==
    IF \E i \in 1 .. Len(vs) : vs[i].video_id = data.video_id
    THEN vs
    ELSE Append(vs, data)
UpsertVideo(vs, data) ==
    IF \E i \in 1 .. Len(vs) : vs[i].video_id = data.video_id
    THEN [i \in 1 .. Len(vs) |-> IF vs[i].video_id = data.video_id THEN data ELSE vs[i]]
    ELSE Append(vs, data)

\* the loop of lines 113-114 over the items of the videos response
RECURSIVE ProcessVideos(_, _, _)
ProcessVideos(vs, items, c) ==
    IF items = <<>> THEN vs
    ELSE ProcessVideos(UpsertVideo(vs, VideoData(Head(items), c.niche, c.state, c.language)),
                       Tail(items), c)
RECURSIVE ProcessChannels(_, _, _)
ProcessChannels(chs, items, c) ==
    IF items = <<>> THEN chs
    ELSE ProcessChannels(UpsertChannel(chs, Head(items), c.state, c.language),
                         Tail(items), c)

\* what the provider answers: the ids of a search, in any order without
\* repetition, and the items of the ids asked for
IdLists ==
    LET ids == {it.id : it \in catalogue}
    IN {q \in UNION {[1 .. n -> ids] : n \in 0 .. Cardinality(ids)} :
          \A i, j \in 1 .. Len(q) : i # j => q[i] # q[j]}
ItemOf(id) == CHOOSE it \in catalogue : it.id = id
ItemsFor(ids) == [i \in 1 .. Len(ids) |-> ItemOf(ids[i])]

\* no ingestion has seen the video id yet
NoSight == [video_id |-> "none"]
\* the video_data of the items of one videos response, by video id
Sight(seen, items, c) ==
    [id \in DOMAIN seen |->
        IF \E i \in 1 .. Len(items) : items[i].id = id
        THEN VideoData(ItemOf(id), c.niche, c.state, c.language)
        ELSE seen[id]]

\* no feed request answered yet
NoFeed == [by |-> "none"]

\* no call of get_next_active_key to observe
NoCall == [done |-> FALSE, ret |-> NoKey, start |-> 0, expect |-> NoKey, quiet |-> FALSE,
           allUsable |-> FALSE, penalised |-> {}, revived |-> FALSE]

LastN(s) == IF Len(s) <= NumKeys THEN s ELSE SubSeq(s, Len(s) - NumKeys + 1, Len(s))

\* -------------------------------------------------------------- the users
\* the requests of register_user that can be in progress at once, the uids
\* verify_token can return, and the usernames asked for, character by
\* character
Requests == {"r1", "r2"}
Uids == {"u1", "u2"}
Usernames == {<<"a", "b">>, <<"A", "b">>, <<"a", ".">>, <<"a", "+">>}
NoRequest == [at |-> "idle", uid |-> "none", username |-> <<>>, outcome |-> "none"]
NoUser == [uid |-> "none", username |-> <<>>]

\* "$options": "i"
Lower(c) == IF c = "A" THEN "a" ELSE IF c = "B" THEN "b" ELSE c
LowerAll(name) == [i \in 1 .. Len(name) |-> Lower(name[i])]

\* the regular expression f"^{username}$" matched against a stored username:
\* "." is any character, "+" repeats what precedes it, any other character
\* is itself in either case
AtomMatches(a, c) == a = "." \/ Lower(a) = Lower(c)
RECURSIVE RegexMatches(_, _)
RegexMatches(pat, str) ==
    IF pat = <<>> THEN str = <<>>
    ELSE IF str = <<>> \/ ~AtomMatches(pat[1], str[1]) THEN FALSE
    ELSE IF Len(pat) >= 2 /\ pat[2] = "+"
         THEN \/ RegexMatches(Tail(Tail(pat)), Tail(str))
              \/ RegexMatches(pat, Tail(str))
         ELSE RegexMatches(Tail(pat), Tail(str))

\* users_collection.find_one({"username": {"$regex": .., "$options": "i"}}):
\* the first matching document in natural order, NoUser for None
FindOneUser(coll, username) ==
    LET hits == {i \in 1 .. Len(coll) : RegexMatches(username, coll[i].username)}
    IN IF hits = {} THEN NoUser
       ELSE coll[CHOOSE i \in hits : \A j \in hits : i <= j]

\* users_collection.update_one({"uid": uid}, {"$set": {"username": ..}}, upsert=True)
UpsertUser(coll, uid, username) ==
    IF \E i \in 1 .. Len(coll) : coll[i].uid = uid
    THEN [i \in 1 .. Len(coll) |->
            IF coll[i].uid = uid THEN [coll[i] EXCEPT !.username = username] ELSE coll[i]]
    ELSE Append(coll, [uid |-> uid, username |-> username])

\* --------------------------------------------------------------- Init
\* the documents a key can have when the service starts: as _initialize_keys
\* inserts it, one search away from the limit, or deactivated
InitRows == {[daily_quota_used |-> 0, is_active |-> TRUE, last_used |-> 0],
             [daily_quota_used |-> 9400, is_active |-> TRUE, last_used |-> 0],
             [daily_quota_used |-> 0, is_active |-> FALSE, last_used |-> 0]}

\* the state once the application is up: the documents of the keys exist
\* (rows), and the jobs in `jobs` are the ones that will run
InitWith(rows, jobs, n, cat) ==
    /\ today = 0
    /\ nCombos = n
    /\ catalogue = cat
    /\ videos = <<>>
    /\ channels = [c \in ChannelIds |-> NoDoc]
    /\ video_ids = [w \in Workers |-> <<>>]
    /\ feed = NoFeed
    /\ api_key_usage \in [KeyIx -> rows]
    /\ pc = [w \in Workers |-> IF w \in jobs THEN "idle" ELSE "off"]
    /\ current_key_index = [w \in Workers |-> 0]
    /\ scanned = [w \in Workers |-> 0]
    /\ usage = [w \in Workers |-> NoUsage]
    /\ comboIx = [w \in Workers |-> 0]
    /\ retries = [w \in Workers |-> 0]
    /\ lastSel = [w \in Workers |-> NoCall]
    /\ selLog = <<>>
    /\ chargedToday = [k \in KeyIx |-> api_key_usage[k].daily_quota_used]
    /\ penalToday = {}
    /\ viral_index = [i \in 1 .. NumSegKeys |-> <<>>]
    /\ keyIx = [w \in Workers |-> 0]
    /\ fetched = [w \in Workers |-> <<>>]
    /\ sighted = [id \in {it.id : it \in cat} |-> NoSight]
    /\ runs = [w \in Workers |-> <<>>]
    /\ users = <<>>
    /\ reg = [r \in Requests |-> NoRequest]

\* one run of the scheduled job
Init == InitWith(InitRows, {"scheduled"}, NumCombos, FirstVideos(1))
\* the scheduled job and a manually triggered one, on fresh documents
InitConc ==
    InitWith({[daily_quota_used |-> 0, is_active |-> TRUE, last_used |-> 0]}, Workers,
             1, FirstVideos(1))

\* ------------------------------------------------------- observation helpers
\* a call of get_next_active_key starts: what it should return if undisturbed
CallStartOn(store, pen, w) ==
    [done |-> FALSE,
     ret |-> NoKey,
     start |-> current_key_index[w],
     expect |-> FirstUsable(store, today, current_key_index[w]),
     quiet |-> TRUE,
     allUsable |-> AllUsable(store, today),
     penalised |-> pen,
     revived |-> FALSE]
CallStart(w) == CallStartOn(api_key_usage, penalToday, w)

InSelect(w) == pc[w] \in {"scan", "eval"}

\* a write of the store by job w, or midnight, disturbs the calls in progress
Disturb(ls, w) ==
    [v \in Workers |-> IF v # w /\ InSelect(v) THEN [ls[v] EXCEPT !.quiet = FALSE]
                       ELSE ls[v]]

\* a charge by job w: the calls in progress are no longer calls with no
\* charge in between
ChargeSeen(ls, w) ==
    [v \in Workers |-> IF v # w /\ InSelect(v)
                       THEN [ls[v] EXCEPT !.quiet = FALSE, !.allUsable = FALSE]
                       ELSE ls[v]]

\* get_next_active_key of job w returns k (NoKey for None)
Returned(ls, w, k) == [ls EXCEPT ![w].done = TRUE, ![w].ret = k]

LogEntry(w, k) == [job |-> w, key |-> k, allUsable |-> lastSel[w].allUsable]

\* ------------------------------------------------------------ the actions
config == <<nCombos, catalogue>>
stores == <<videos, channels>>
jobObs == <<viral_index, keyIx, fetched, sighted, runs>>
userVars == <<users, reg>>

\* the observation of a charge of `cost` to key k
Charged(k, cost) ==
    /\ chargedToday' = [chargedToday EXCEPT ![k] = @ + cost]
    /\ selLog' = <<>>

\* the observation of a call of job w returning k (NoKey for None)
LogReturn(w, k) ==
    selLog' = LastN(Append(selLog, LogEntry(w, k)))

\* comprehensive_fetch_job starts: yt_service = YouTubeService()
StartJob(w) ==
    /\ pc[w] = "idle"
    /\ pc' = [pc EXCEPT ![w] = "loop"]
    /\ current_key_index' = [current_key_index EXCEPT ![w] = 0]
    /\ comboIx' = [comboIx EXCEPT ![w] = 0]
    /\ fetched' = [fetched EXCEPT ![w] = <<>>]
    /\ keyIx' = [keyIx EXCEPT ![w] = 0]
    /\ UNCHANGED <<today, config, userVars, viral_index, sighted, runs, stores, video_ids, feed,
                   api_key_usage, scanned, usage, retries, lastSel, selLog, chargedToday,
                   penalToday>>

\* the nested loop calls fetch_videos for the next combination, which calls
\* get_next_active_key (line 72)
JobFetch(w) ==
    /\ pc[w] = "loop"
    /\ comboIx[w] < nCombos
    /\ comboIx' = [comboIx EXCEPT ![w] = @ + 1]
    /\ retries' = [retries EXCEPT ![w] = 0]
    /\ scanned' = [scanned EXCEPT ![w] = 0]
    /\ pc' = [pc EXCEPT ![w] = "scan"]
    /\ lastSel' = [lastSel EXCEPT ![w] = CallStart(w)]
    /\ fetched' = [fetched EXCEPT ![w] = Append(@, comboIx[w] + 1)]
    /\ UNCHANGED <<today, config, userVars, viral_index, keyIx, sighted, runs, stores, video_ids,
                   feed, api_key_usage, current_key_index, usage, selLog, chargedToday,
                   penalToday>>

\* `continue` / the end of an iteration that returned nothing: the next
\* iteration, or `return None` after len(api_keys) iterations, on which
\* fetch_videos returns [] (lines 73-75).  ls is lastSel as already updated.
Continue(w, ls) ==
    IF scanned[w] + 1 = NumKeys
    THEN /\ pc' = [pc EXCEPT ![w] = "loop"]
         /\ scanned' = [scanned EXCEPT ![w] = 0]
         /\ retries' = [retries EXCEPT ![w] = 0]
         /\ lastSel' = Returned(ls, w, NoKey)
         /\ LogReturn(w, NoKey)
    ELSE /\ pc' = [pc EXCEPT ![w] = "scan"]
         /\ scanned' = [scanned EXCEPT ![w] = @ + 1]
         /\ lastSel' = ls
         /\ UNCHANGED <<retries, selLog>>

\* lines 41-46: take the key at the cursor, advance the cursor, find_one
Scan(w) ==
    /\ pc[w] = "scan"
    /\ LET k == current_key_index[w]
           u == FindActive(k)
       IN /\ current_key_index' = [current_key_index EXCEPT ![w] = NextIndex(k)]
          /\ IF u = NoUsage
             THEN /\ Continue(w, lastSel)
                  /\ UNCHANGED usage
             ELSE /\ usage' = [usage EXCEPT ![w] = u]
                  /\ pc' = [pc EXCEPT ![w] = "eval"]
                  /\ UNCHANGED <<scanned, retries, lastSel, selLog>>
    /\ UNCHANGED <<today, config, userVars, jobObs, stores, video_ids, feed, api_key_usage, comboIx,
                   chargedToday, penalToday>>

\* lines 48-58: the lazy daily reset of the document read, then the quota test
Eval(w) ==
    /\ pc[w] = "eval"
    /\ LET u == usage[w]
           k == u.api_key
           now == today
           stale == IsNewDay(u, now)
           u2 == IF stale THEN [u EXCEPT !.daily_quota_used = 0] ELSE u
           ls0 == IF stale THEN Disturb(lastSel, w) ELSE lastSel
           ls == [ls0 EXCEPT ![w].revived = stale /\ ~HasQuota(u)]
       IN /\ api_key_usage' = IF stale THEN ResetQuota(api_key_usage, k, now)
                              ELSE api_key_usage
          /\ IF HasQuota(u2)
             THEN /\ pc' = [pc EXCEPT ![w] = "search"]
                  /\ usage' = [usage EXCEPT ![w] = u2]
                  /\ scanned' = [scanned EXCEPT ![w] = 0]
                  /\ lastSel' = Returned(ls, w, k)
                  /\ LogReturn(w, k)
                  /\ UNCHANGED retries
             ELSE /\ usage' = [usage EXCEPT ![w] = NoUsage]
                  /\ Continue(w, ls)
    /\ UNCHANGED <<today, config, userVars, jobObs, stores, video_ids, feed, current_key_index,
                   comboIx, chargedToday, penalToday>>

\* lines 88-93: the search call answers 403; the key is charged 10000 and
\* fetch_videos calls itself, which calls get_next_active_key again
SearchRejected(w) ==
    /\ pc[w] = "search"
    /\ LET k == usage[w].api_key
           store == IncQuota(api_key_usage, k, PENALTY_COST, today)
           pen == penalToday \cup {k}
       IN /\ api_key_usage' = store
          /\ penalToday' = pen
          /\ Charged(k, PENALTY_COST)
          /\ lastSel' = [ChargeSeen(lastSel, w) EXCEPT ![w] = CallStartOn(store, pen, w)]
    /\ retries' = [retries EXCEPT ![w] = @ + 1]
    /\ scanned' = [scanned EXCEPT ![w] = 0]
    /\ usage' = [usage EXCEPT ![w] = NoUsage]
    /\ pc' = [pc EXCEPT ![w] = "scan"]
    /\ UNCHANGED <<today, config, userVars, jobObs, stores, video_ids, feed, current_key_index, comboIx>>

\* lines 88, 95-102: the search call answers anything but 403; the key is
\* charged 100; a status other than 200, or no video id, returns []
SearchAnswered(w, ok, ids) ==
    /\ pc[w] = "search"
    /\ LET k == usage[w].api_key
       IN /\ api_key_usage' = IncQuota(api_key_usage, k, SEARCH_COST, today)
          /\ Charged(k, SEARCH_COST)
    /\ lastSel' = [ChargeSeen(lastSel, w) EXCEPT ![w] = NoCall]
    /\ retries' = [retries EXCEPT ![w] = 0]
    /\ IF ok /\ ids # <<>>
       THEN /\ pc' = [pc EXCEPT ![w] = "detail"]
            /\ video_ids' = [video_ids EXCEPT ![w] = ids]
            /\ UNCHANGED usage
       ELSE /\ pc' = [pc EXCEPT ![w] = "loop"]
            /\ usage' = [usage EXCEPT ![w] = NoUsage]
            /\ UNCHANGED video_ids
    /\ UNCHANGED <<today, config, userVars, jobObs, stores, feed, current_key_index, scanned, comboIx,
                   penalToday>>

\* lines 88, 118-120: requests.get raises; nothing is charged
SearchRaises(w) ==
    /\ pc[w] = "search"
    /\ pc' = [pc EXCEPT ![w] = "loop"]
    /\ usage' = [usage EXCEPT ![w] = NoUsage]
    /\ retries' = [retries EXCEPT ![w] = 0]
    /\ lastSel' = [lastSel EXCEPT ![w] = NoCall]
    /\ UNCHANGED <<today, config, userVars, jobObs, stores, video_ids, feed, api_key_usage,
                   current_key_index, scanned, comboIx, selLog, chargedToday,
                   penalToday>>

\* lines 106-116: the videos call answers; the key is charged 1; on 200 every
\* item is processed with the niche, state and language of the call
DetailAnsweredAnyStatus(w, ok) ==
    /\ pc[w] = "detail"
    /\ LET k == usage[w].api_key
       IN /\ api_key_usage' = IncQuota(api_key_usage, k, DETAIL_COST, today)
          /\ Charged(k, DETAIL_COST)
    /\ videos' = ProcessVideos(videos, ItemsFor(video_ids[w]), Combo(comboIx[w]))
    /\ channels' = ProcessChannels(channels, ItemsFor(video_ids[w]), Combo(comboIx[w]))
    /\ sighted' = Sight(sighted, ItemsFor(video_ids[w]), Combo(comboIx[w]))
    /\ lastSel' = ChargeSeen(lastSel, w)
    /\ pc' = [pc EXCEPT ![w] = "loop"]
    /\ usage' = [usage EXCEPT ![w] = NoUsage]
    /\ video_ids' = [video_ids EXCEPT ![w] = <<>>]
    /\ UNCHANGED <<today, config, userVars, viral_index, keyIx, fetched, runs, feed,
                   current_key_index, scanned, comboIx, retries, penalToday>>
DetailAnswered(w, ok) ==
    /\ pc[w] = "detail"
    /\ LET k == usage[w].api_key
       IN /\ api_key_usage' = IncQuota(api_key_usage, k, DETAIL_COST, today)
          /\ Charged(k, DETAIL_COST)
    /\ IF ok
       THEN /\ videos' = ProcessVideos(videos, ItemsFor(video_ids[w]), Combo(comboIx[w]))
            /\ channels' = ProcessChannels(channels, ItemsFor(video_ids[w]), Combo(comboIx[w]))
            /\ sighted' = Sight(sighted, ItemsFor(video_ids[w]), Combo(comboIx[w]))
       ELSE UNCHANGED <<stores, sighted>>
    /\ lastSel' = ChargeSeen(lastSel, w)
    /\ pc' = [pc EXCEPT ![w] = "loop"]
    /\ usage' = [usage EXCEPT ![w] = NoUsage]
    /\ video_ids' = [video_ids EXCEPT ![w] = <<>>]
    /\ UNCHANGED <<today, config, userVars, viral_index, keyIx, fetched, runs, feed,
                   current_key_index, scanned, comboIx, retries, penalToday>>

\* lines 106, 118-120: requests.get raises; nothing is charged
DetailRaises(w) ==
    /\ pc[w] = "detail"
    /\ pc' = [pc EXCEPT ![w] = "loop"]
    /\ usage' = [usage EXCEPT ![w] = NoUsage]
    /\ video_ids' = [video_ids EXCEPT ![w] = <<>>]
    /\ UNCHANGED <<today, config, userVars, jobObs, stores, feed, api_key_usage, current_key_index,
                   scanned, comboIx, retries, lastSel, selLog, chargedToday,
                   penalToday>>

\* UTC midnight passes
Tick ==
    /\ today < MaxDay
    /\ today' = today + 1
    /\ chargedToday' = [k \in KeyIx |-> 0]
    /\ penalToday' = {}
    /\ lastSel' = [w \in Workers |->
                     [lastSel[w] EXCEPT !.quiet = IF InSelect(w) THEN FALSE ELSE @,
                                        !.penalised = {}]]
    /\ UNCHANGED <<config, userVars, jobObs, stores, video_ids, feed, api_key_usage, pc,
                   current_key_index, scanned, usage, comboIx, retries, selLog>>

\* ----------------------------------------------------------------- the feed
ReqStates == {Unset} \cup {STATES[i] : i \in 1 .. Len(STATES)}
ReqLanguages == {Unset} \cup {LANGUAGES[i] : i \in 1 .. Len(LANGUAGES)}

\* videos_collection.find(query): the documents matching every field of the
\* query, in natural order; a field left Unset is not in the query
Find(state, language) ==
    SelectSeq(videos, LAMBDA v : /\ (state = Unset \/ v.state = state)
                                 /\ (language = Unset \/ v.language = language))

SortKey(v, field) ==
    IF field = "viral_score" THEN v.viral_score ELSE Rat(v.published_at, 1)

\* cursor.sort(field, DESCENDING); documents with equal keys keep their order
SortDesc(seq, field) ==
    LET n == Len(seq)
        before(j, i) == \/ RLess(SortKey(seq[i], field), SortKey(seq[j], field))
                        \/ (SortKey(seq[j], field) = SortKey(seq[i], field) /\ j < i)
        pos(i) == 1 + Cardinality({j \in 1 .. n : before(j, i)})
    IN [p \in 1 .. n |-> seq[CHOOSE i \in 1 .. n : pos(i) = p]]

\* cursor.limit(limit); pymongo takes a limit of 0 as no limit
Limit(seq, limit) ==
    IF limit = 0 \/ Len(seq) <= limit THEN seq ELSE SubSeq(seq, 1, limit)

Query(state, language, field, limit) ==
    Limit(SortDesc(Find(state, language), field), limit)

\* feed_routes.py get_feed, lines 48-77: the list and the level it comes from
RoutesCascadeNoGlobal(state, language, limit) ==
    LET v1 == IF state # Unset /\ language # Unset
              THEN [level |-> 1, videos |-> Query(state, language, "viral_score", limit)]
              ELSE [level |-> 0, videos |-> <<>>]
        v2 == IF v1.videos = <<>> /\ language # Unset
              THEN [level |-> 2, videos |-> Query(Unset, language, "viral_score", limit)]
              ELSE v1
        v3 == IF v2.videos = <<>> /\ state # Unset
              THEN [level |-> 3, videos |-> Query(state, Unset, "viral_score", limit)]
              ELSE v2
        v4 == IF v3.videos = <<>> /\ state = Unset /\ language = Unset
              THEN [level |-> 4, videos |-> Query(Unset, Unset, "viral_score", limit)]
              ELSE v3
    IN IF v4.videos = <<>>
       THEN [level |-> 5, videos |-> <<>>]
       ELSE v4
RoutesCascade(state, language, limit) ==
    LET v1 == IF state # Unset /\ language # Unset
              THEN [level |-> 1, videos |-> Query(state, language, "viral_score", limit)]
              ELSE [level |-> 0, videos |-> <<>>]
        v2 == IF v1.videos = <<>> /\ language # Unset
              THEN [level |-> 2, videos |-> Query(Unset, language, "viral_score", limit)]
              ELSE v1
        v3 == IF v2.videos = <<>> /\ state # Unset
              THEN [level |-> 3, videos |-> Query(state, Unset, "viral_score", limit)]
              ELSE v2
        v4 == IF v3.videos = <<>>
              THEN [level |-> 4, videos |-> Query(Unset, Unset, "viral_score", limit)]
              ELSE v3
    IN IF v4.videos = <<>>
       THEN [level |-> 5, videos |-> Query(Unset, Unset, "published_at", limit)]
       ELSE v4

\* main.py get_feed, lines 105-121: the personalised query, then the global one
MainCascade(state, language, limit) ==
    LET v1 == IF state # Unset \/ language # Unset
              THEN [level |-> 1, videos |-> Query(state, language, "viral_score", limit)]
              ELSE [level |-> 0, videos |-> <<>>]
    IN IF v1.videos = <<>>
       THEN [level |-> 4, videos |-> Query(Unset, Unset, "viral_score", limit)]
       ELSE v1

\* _format_video; title and thumbnail follow the id
FormatVideo(v) ==
    [id |-> v.video_id, channel |-> v.channel_title, views |-> v.view_count,
     likes |-> v.like_count, published_at |-> v.published_at,
     is_short |-> v.is_short, duration |-> v.duration]
FormattedPlaceholder(vs) ==
    IF vs = <<>> THEN <<[id |-> "none"]>> ELSE [i \in 1 .. Len(vs) |-> FormatVideo(vs[i])]
Formatted(vs) == [i \in 1 .. Len(vs) |-> FormatVideo(vs[i])]

Answer(by, state, language, limit, got) ==
    [by |-> by, state |-> state, language |-> language, limit |-> limit,
     level |-> got.level, result |-> Formatted(got.videos),
     failed |-> {w \in Workers : pc[w] = "failed"},
     running |-> {w \in Workers : pc[w] \notin {"off", "idle", "done", "failed"}}]

\* POST /api/feed of feed_routes.py
GetFeedRoutes(state, language, limit) ==
    /\ feed' = Answer("feed_routes", state, language, limit,
                      RoutesCascade(state, language, limit))
    /\ UNCHANGED <<today, config, userVars, jobObs, stores, video_ids, api_key_usage, pc,
                   current_key_index, scanned, usage, comboIx, retries, lastSel,
                   selLog, chargedToday, penalToday>>

\* GET /feed of main.py
GetFeedMain(state, language, limit) ==
    /\ feed' = Answer("main", state, language, limit,
                      MainCascade(state, language, limit))
    /\ UNCHANGED <<today, config, userVars, jobObs, stores, video_ids, api_key_usage, pc,
                   current_key_index, scanned, usage, comboIx, retries, lastSel,
                   selLog, chargedToday, penalToday>>

\* _process_video_item(item, niche, state, language), lines 122-152; the
\* last answer observed is of the store before it
ProcessItem(item, c) ==
    /\ videos' = ProcessVideos(videos, <<item>>, c)
    /\ channels' = ProcessChannels(channels, <<item>>, c)
    /\ feed' = NoFeed
    /\ sighted' = Sight(sighted, <<item>>, c)
    /\ UNCHANGED <<today, config, userVars, viral_index, keyIx, fetched, runs, video_ids,
                   api_key_usage, pc, current_key_index,
                   scanned, usage, comboIx, retries, lastSel, selLog, chargedToday,
                   penalToday>>

\* ------------------------------------------------------- the ranking index
\* ViralEngine.update_viral_indices, for one segmentation key: the videos
\* matching the key by descending viral_score, ranked 1..K
RankFromZero(key) ==
    LET sorted == SortDesc(Find(key.state, key.language), "viral_score")
    IN [r \in 1 .. Len(sorted) |->
          [viral_type |-> key.viral_type, state |-> key.state, language |-> key.language,
           video_id |-> sorted[r].video_id, rank |-> r - 1,
           score |-> sorted[r].viral_score]]
RankEntries(key) ==
    LET sorted == SortDesc(Find(key.state, key.language), "viral_score")
    IN [r \in 1 .. Len(sorted) |->
          [viral_type |-> key.viral_type, state |-> key.state, language |-> key.language,
           video_id |-> sorted[r].video_id, rank |-> r,
           score |-> sorted[r].viral_score]]

\* the nested loop is over (lines 44-50)
LoopDoneAfterFirst(w) == comboIx[w] >= 1
LoopDone(w) == comboIx[w] = nCombos

\* lines 52-53: the loop is over, viral_engine.update_viral_indices() starts
JobIndex(w) ==
    /\ pc[w] = "loop"
    /\ LoopDone(w)
    /\ pc' = [pc EXCEPT ![w] = "index"]
    /\ keyIx' = [keyIx EXCEPT ![w] = 0]
    /\ lastSel' = [lastSel EXCEPT ![w] = NoCall]
    /\ UNCHANGED <<today, config, userVars, viral_index, fetched, sighted, runs, stores, video_ids,
                   feed, api_key_usage, current_key_index, scanned, usage, comboIx,
                   retries, selLog, chargedToday, penalToday>>

\* update_viral_indices replaces the rank entries of the next segmentation
\* key; after the last key the job logs its success and returns (line 54)
IndexKey(w) ==
    /\ pc[w] = "index"
    /\ keyIx[w] < NumSegKeys
    /\ viral_index' = [viral_index EXCEPT ![keyIx[w] + 1] = RankEntries(SegKeys[keyIx[w] + 1])]
    /\ keyIx' = [keyIx EXCEPT ![w] = @ + 1]
    /\ IF keyIx[w] + 1 = NumSegKeys
       THEN /\ pc' = [pc EXCEPT ![w] = "done"]
            /\ runs' = [runs EXCEPT ![w] = Append(@, "done")]
       ELSE UNCHANGED <<pc, runs>>
    /\ UNCHANGED <<today, config, userVars, fetched, sighted, stores, video_ids, feed,
                   api_key_usage, current_key_index, scanned, usage, comboIx, retries,
                   lastSel, selLog, chargedToday, penalToday>>

\* ------------------------------------------------------------ exceptions
\* the handler that catches an exception raised at `site` by a fetch_videos
\* frame `depth` deep in the recursion of line 93: the try of fetch_videos
\* (lines 87-120) encloses the provider calls and the recursive call, not
\* the get_next_active_key of line 72; the try of comprehensive_fetch_job
\* (lines 39-56) encloses the whole job
CaughtByNoBoundary(site, depth) ==
    IF site \in {"search", "detail"} \/ (site = "select" /\ depth > 0)
    THEN "fetch_videos"
    ELSE "nobody"
CaughtBy(site, depth) ==
    IF site \in {"search", "detail"} \/ (site = "select" /\ depth > 0)
    THEN "fetch_videos"
    ELSE "comprehensive_fetch_job"

\* an exception raised at `site` of job w: fetch_videos logs it and returns []
\* (lines 118-120), or the job logs it and returns (lines 55-56)
Raise(w, site) ==
    LET by == CaughtBy(site, retries[w])
    IN /\ pc' = [pc EXCEPT ![w] = CASE by = "fetch_videos" -> "loop"
                                     [] by = "comprehensive_fetch_job" -> "failed"
                                     [] OTHER -> "crashed"]
       /\ runs' = IF by = "fetch_videos" THEN runs
                  ELSE [runs EXCEPT ![w] = Append(@, IF by = "nobody" THEN "crashed"
                                                     ELSE "failed")]
       /\ usage' = [usage EXCEPT ![w] = NoUsage]
       /\ retries' = [retries EXCEPT ![w] = 0]
       /\ scanned' = [scanned EXCEPT ![w] = 0]
       /\ video_ids' = [video_ids EXCEPT ![w] = <<>>]
       /\ lastSel' = [lastSel EXCEPT ![w] = NoCall]
       /\ UNCHANGED <<today, config, userVars, viral_index, keyIx, fetched, sighted, stores, feed,
                      api_key_usage, current_key_index, comboIx, selLog, chargedToday,
                      penalToday>>

\* lines 40-41: YouTubeService() or ViralEngine() raises
ConstructRaises(w) ==
    /\ pc[w] = "idle"
    /\ Raise(w, "construct")

\* line 72: a store access of get_next_active_key raises
SelectRaises(w) ==
    /\ pc[w] \in {"scan", "eval"}
    /\ Raise(w, "select")

\* line 53: update_viral_indices raises
IndexRaises(w) ==
    /\ pc[w] = "index"
    /\ Raise(w, "index")

\* the scheduler fires the job again after its interval (line 62); the
\* trigger is called again (lines 89-94)
NextRun(w) ==
    /\ pc[w] \in {"done", "failed"}
    /\ Len(runs[w]) < MaxRuns
    /\ pc' = [pc EXCEPT ![w] = "idle"]
    /\ UNCHANGED <<today, config, userVars, jobObs, stores, video_ids, feed, api_key_usage,
                   current_key_index, scanned, usage, comboIx, retries, lastSel, selLog,
                   chargedToday, penalToday>>

Next ==
    \/ \E w \in Workers : StartJob(w)
    \/ \E w \in Workers : JobFetch(w)
    \/ \E w \in Workers : JobIndex(w)
    \/ \E w \in Workers : IndexKey(w)
    \/ \E w \in Workers : ConstructRaises(w)
    \/ \E w \in Workers : SelectRaises(w)
    \/ \E w \in Workers : IndexRaises(w)
    \/ \E w \in Workers : Scan(w)
    \/ \E w \in Workers : Eval(w)
    \/ \E w \in Workers : SearchRejected(w)
    \/ \E w \in Workers, ok \in BOOLEAN, ids \in IdLists : SearchAnswered(w, ok, ids)
    \/ \E w \in Workers : SearchRaises(w)
    \/ \E w \in Workers, ok \in BOOLEAN : DetailAnswered(w, ok)
    \/ \E w \in Workers : DetailRaises(w)
    \/ Tick

Spec == Init /\ [][Next]_vars
SpecConc == InitConc /\ [][Next]_vars

\* the runs of the scheduled job over one combination within one UTC day,
\* fired again by the scheduler, while the feed is served
InitJobs ==
    InitWith({[daily_quota_used |-> 0, is_active |-> TRUE, last_used |-> 0]}, {"scheduled"},
             1, FirstVideos(1))
NextJobs ==
    \/ \E w \in Workers : StartJob(w)
    \/ \E w \in Workers : ConstructRaises(w)
    \/ \E w \in Workers : JobFetch(w)
    \/ \E w \in Workers : Scan(w)
    \/ \E w \in Workers : Eval(w)
    \/ \E w \in Workers : SelectRaises(w)
    \/ \E w \in Workers : SearchRejected(w)
    \/ \E w \in Workers, ok \in BOOLEAN, ids \in IdLists : SearchAnswered(w, ok, ids)
    \/ \E w \in Workers : SearchRaises(w)
    \/ \E w \in Workers, ok \in BOOLEAN : DetailAnswered(w, ok)
    \/ \E w \in Workers : DetailRaises(w)
    \/ \E w \in Workers : JobIndex(w)
    \/ \E w \in Workers : IndexKey(w)
    \/ \E w \in Workers : IndexRaises(w)
    \/ \E w \in Workers : NextRun(w)
    \/ GetFeedRoutes(Unset, Unset, MaxLimit)
    \/ GetFeedMain(Unset, Unset, MaxLimit)
SpecJobs == InitJobs /\ [][NextJobs]_vars

\* the feed over the stores that the ingestion of two combinations can leave
InitFeed ==
    InitWith({[daily_quota_used |-> 0, is_active |-> TRUE, last_used |-> 0]}, {},
             2, FirstVideos(MaxVideos))
NextFeed ==
    \/ \E item \in catalogue, i \in 1 .. nCombos : ProcessItem(item, Combo(i))
    \/ \E st \in ReqStates, la \in ReqLanguages, limit \in 0 .. MaxLimit :
          GetFeedRoutes(st, la, limit)
    \/ \E st \in ReqStates, la \in ReqLanguages, limit \in 0 .. MaxLimit :
          GetFeedMain(st, la, limit)
SpecFeed == InitFeed /\ [][NextFeed]_vars

\* one run of the scheduled job over one combination, the provider having
\* MaxVideos videos, up to the rebuild of the ranking index
InitIndex ==
    InitWith({[daily_quota_used |-> 0, is_active |-> TRUE, last_used |-> 0]}, {"scheduled"},
             1, FirstVideos(MaxVideos))
SpecIndex == InitIndex /\ [][Next]_vars

\* the scoring of two items of the provider published at the same time,
\* whose counts, publish time and duration are drawn from ScoreInputs, each
\* ingested for a combination in the canonical table or for one outside it
ScoreInputs ==
    [viewCount : {0, 1000, 2000, 3600}, likeCount : {0, 100}, commentCount : {0, 50},
     publishedAt : {0, -1, -10}, duration : {PT30S, PT5M}]
ScoreItem(id, x) ==
    [id |-> id, channelId |-> "c1", channelTitle |-> "Alpha", publishedAt |-> x.publishedAt,
     viewCount |-> x.viewCount, likeCount |-> x.likeCount, commentCount |-> x.commentCount,
     duration |-> x.duration]
InitScore ==
    \E x \in ScoreInputs :
      \E y \in {z \in ScoreInputs : z.publishedAt = x.publishedAt} :
        InitWith({[daily_quota_used |-> 0, is_active |-> TRUE, last_used |-> 0]}, {},
                 2, {ScoreItem("a", x), ScoreItem("b", y)})
NextScore ==
    \E item \in catalogue, i \in 1 .. nCombos : ProcessItem(item, Combo(i))
SpecScore == InitScore /\ [][NextScore]_vars

\* ------------------------------------------------------------ register_user
everythingElse == <<today, config, jobObs, stores, video_ids, feed, api_key_usage, pc,
                    current_key_index, scanned, usage, comboIx, retries, lastSel,
                    selLog, chargedToday, penalToday>>

\* user_routes.py lines 58-60: the test of the username; 400 when a document
\* of another uid matches
RegisterCheck(r, uid, username) ==
    /\ reg[r].at = "idle"
    /\ LET existing_user == FindOneUser(users, username)
       IN reg' = [reg EXCEPT ![r] =
                    IF existing_user # NoUser /\ existing_user.uid # uid
                    THEN [at |-> "idle", uid |-> uid, username |-> username,
                          outcome |-> "rejected"]
                    ELSE [at |-> "write", uid |-> uid, username |-> username,
                          outcome |-> "none"]]
    /\ UNCHANGED <<users, everythingElse>>

\* lines 62-72: the upsert of the document of the uid, and the 200 answer
RegisterWrite(r) ==
    /\ reg[r].at = "write"
    /\ users' = UpsertUser(users, reg[r].uid, reg[r].username)
    /\ reg' = [reg EXCEPT ![r].at = "idle", ![r].outcome = "registered"]
    /\ UNCHANGED everythingElse

InitUsers ==
    InitWith({[daily_quota_used |-> 0, is_active |-> TRUE, last_used |-> 0]}, {},
             1, FirstVideos(1))
NextUsers ==
    \/ \E r \in Requests, uid \in Uids, username \in Usernames :
          RegisterCheck(r, uid, username)
    \/ \E r \in Requests : RegisterWrite(r)
SpecUsers == InitUsers /\ [][NextUsers]_vars

\* =================================================================== claims
LogKeys == {selLog[i].key : i \in 1 .. Len(selLog)}
FullWindow == Len(selLog) = NumKeys
OneService == \A i, j \in 1 .. Len(selLog) : selLog[i].job = selLog[j].job
PoolUsable == \A i \in 1 .. Len(selLog) : selLog[i].allUsable

\* C1 (as stated): NumKeys consecutive get_next_active_key calls of one
\* service with no charge in between return NumKeys distinct credentials,
\* whatever the state of the pool.
C1_RoundRobinAnyPool ==
    (FullWindow /\ OneService) => (NoKey \notin LogKeys /\ Cardinality(LogKeys) = NumKeys)

\* C1 (amended): when every credential of the pool is active and below
\* QUOTA_LIMIT (after the lazy reset) at each of the calls, consecutive calls
\* of one service with no charge in between return the credentials in cyclic
\* cursor order, so NumKeys of them return NumKeys distinct credentials.
C1_RoundRobinUsablePool ==
    (OneService /\ PoolUsable) =>
        /\ \A i \in 1 .. Len(selLog) : selLog[i].key \in KeyIx
        /\ \A i \in 1 .. (Len(selLog) - 1) :
              selLog[i + 1].key = (selLog[i].key + 1) % NumKeys
        /\ FullWindow => Cardinality(LogKeys) = NumKeys

C1_Witness ==
    /\ FullWindow /\ OneService /\ PoolUsable
    /\ Cardinality(LogKeys) = NumKeys

\* C2: when get_next_active_key evaluates an active credential whose stored
\* last_used is on an earlier UTC day and whose stored daily_quota_used is at
\* or above QUOTA_LIMIT, that call returns it, and stores daily_quota_used 0
\* and last_used = now (the evaluation is the step of lines 48-58; a store
\* access that raises ends the call without one).
C2_DailyReset ==
    [][\A w \in Workers :
         (/\ Eval(w)
          /\ api_key_usage[usage[w].api_key].last_used < today
          /\ api_key_usage[usage[w].api_key].daily_quota_used >= QUOTA_LIMIT)
         => (/\ pc'[w] = "search"
             /\ lastSel'[w].ret = usage[w].api_key
             /\ usage'[w].api_key = usage[w].api_key
             /\ api_key_usage'[usage[w].api_key].daily_quota_used = 0
             /\ api_key_usage'[usage[w].api_key].last_used = today)]_vars

C2_Witness ==
    \E w \in Workers :
        /\ lastSel[w].revived
        /\ lastSel[w].ret \in KeyIx
        /\ api_key_usage[lastSel[w].ret].daily_quota_used = 0
        /\ api_key_usage[lastSel[w].ret].last_used = today

\* C3: the document get_next_active_key returns is of an active credential
\* and has daily_quota_used < QUOTA_LIMIT; a call during which neither the
\* store was written by another job nor midnight passed returns the first
\* credential, in cyclic order from the cursor, that is active and below the
\* limit after the lazy reset, and None exactly when there is none
\* (lastSel.expect is FirstUsable of the store, day and cursor the call
\* started with).
C3_ReturnsFirstUsable ==
    \A w \in Workers :
        lastSel[w].done =>
            /\ lastSel[w].ret \in KeyIx =>
                  /\ api_key_usage[lastSel[w].ret].is_active
                  /\ usage[w].api_key = lastSel[w].ret
                  /\ usage[w].daily_quota_used < QUOTA_LIMIT
            /\ lastSel[w].quiet => lastSel[w].ret = lastSel[w].expect

C3_Witness ==
    \E w \in Workers :
        /\ lastSel[w].quiet
        /\ lastSel[w].ret \in KeyIx
        /\ lastSel[w].ret # lastSel[w].start
        /\ \E k \in KeyIx : api_key_usage[k].is_active /\ ~Usable(api_key_usage, today, k)

\* C4: a credential charged the over-quota penalty stays exhausted for the
\* rest of that UTC day: its daily_quota_used stays >= QUOTA_LIMIT and no
\* get_next_active_key call started after the charge, of any job, returns it.
C4_PenaltyExhaustsForTheDay ==
    /\ \A k \in penalToday : api_key_usage[k].daily_quota_used >= QUOTA_LIMIT
    /\ \A w \in Workers : lastSel[w].ret \notin lastSel[w].penalised

\* C5: one fetch_videos call whose search calls are all rejected retries at
\* most NumKeys times.
C5_RetriesBounded ==
    \A w \in Workers : retries[w] <= NumKeys

\* C6: no charge is lost: a credential touched today holds at least the sum
\* of the costs charged to it today.
C6_NoChargeLost ==
    \A k \in KeyIx :
        api_key_usage[k].last_used = today =>
            api_key_usage[k].daily_quota_used >= chargedToday[k]

\* C7: with no charge in between, NumKeys consecutive get_next_active_key
\* calls taken across all running jobs return NumKeys distinct credentials
\* (every credential being active and below the limit).
C7_FairAcrossJobs ==
    (FullWindow /\ PoolUsable) => Cardinality(LogKeys) = NumKeys

\* C8: usage charged on an earlier UTC day is never carried into a later
\* day: a credential touched today holds at most the sum of the costs charged
\* to it today.
C8_NoCarryOver ==
    \A k \in KeyIx :
        api_key_usage[k].last_used = today =>
            api_key_usage[k].daily_quota_used <= chargedToday[k]

\* ------------------------------------------------------------ feed claims
\* the five levels of the cascade, as the specification lists them
Level(n, state, language, limit) ==
    CASE n = 1 -> IF state # Unset /\ language # Unset
                  THEN Query(state, language, "viral_score", limit) ELSE <<>>
      [] n = 2 -> IF language # Unset
                  THEN Query(Unset, language, "viral_score", limit) ELSE <<>>
      [] n = 3 -> IF state # Unset
                  THEN Query(state, Unset, "viral_score", limit) ELSE <<>>
      [] n = 4 -> Query(Unset, Unset, "viral_score", limit)
      [] n = 5 -> Query(Unset, Unset, "published_at", limit)
FirstNonEmpty(state, language, limit) ==
    IF \E n \in 1 .. 5 : Level(n, state, language, limit) # <<>>
    THEN Level(CHOOSE n \in 1 .. 5 :
                  /\ Level(n, state, language, limit) # <<>>
                  /\ \A m \in 1 .. (n - 1) : Level(m, state, language, limit) = <<>>,
               state, language, limit)
    ELSE <<>>

\* C9: every get_feed answer is the result of the first non-empty level of
\* the cascade (1) state and language, (2) language, (3) state, (4) global by
\* viral score, (5) global by publish time, and holds at most `limit` entries
\* (for a limit above 0).
C9_FirstNonEmptyLevel ==
    feed.by # "none" =>
        /\ feed.result = Formatted(FirstNonEmpty(feed.state, feed.language, feed.limit))
        /\ feed.limit > 0 => Len(feed.result) <= feed.limit

\* a request that names a state or language, none of which any stored video has
MatchesNothing(state, language) ==
    /\ state # Unset \/ language # Unset
    /\ \A i \in 1 .. Len(videos) :
          /\ state # Unset => videos[i].state # state
          /\ language # Unset => videos[i].language # language

\* C10: a get_feed whose state and language match no stored video, jointly
\* or separately, answers what the unfiltered get_feed with the same limit
\* answers, the top of the global viral order, reached at level 4 (level 5
\* when the store is empty).
C10_FallsThroughToGlobal ==
    (feed.by # "none" /\ MatchesNothing(feed.state, feed.language)) =>
        /\ feed.result = Formatted(Limit(SortDesc(videos, "viral_score"), feed.limit))
        /\ feed.by = "feed_routes" =>
              /\ feed.result = Formatted(RoutesCascade(Unset, Unset, feed.limit).videos)
              /\ feed.level = IF videos = <<>> THEN 5 ELSE 4
        /\ feed.by = "main" =>
              /\ feed.result = Formatted(MainCascade(Unset, Unset, feed.limit).videos)
              /\ feed.level = 4

C10_Witness ==
    /\ feed.by = "feed_routes"
    /\ feed.state # Unset /\ feed.language # Unset
    /\ MatchesNothing(feed.state, feed.language)
    /\ Len(videos) >= 2
    /\ Len(feed.result) >= 1
    /\ feed.level = 4

\* C11: with no video stored, every get_feed request, whatever its state,
\* language and limit, is answered with the empty list; feed_routes.py
\* reaches it through all five levels, main.py through its global query.
C11_EmptyStoreEmptyFeed ==
    (feed.by # "none" /\ videos = <<>>) =>
        /\ feed.result = <<>>
        /\ feed.level = IF feed.by = "feed_routes" THEN 5 ELSE 4

C11_Witness ==
    /\ videos = <<>>
    /\ feed.by = "feed_routes"
    /\ feed.state # Unset /\ feed.language # Unset /\ feed.limit > 0
    /\ feed.result = <<>>

\* ------------------------------------------------------------- job claims
\* C12: every exception raised in a job is caught, by fetch_videos or at the
\* boundary of comprehensive_fetch_job: no run ends uncaught, every run that
\* ended ended as "done" or "failed", and the run after a failed one starts
\* as any run does, with a new service whose cursor is 0 and nothing fetched.
C12_CaughtAtJobBoundary ==
    \A w \in Workers :
        /\ pc[w] # "crashed"
        /\ \A i \in 1 .. Len(runs[w]) : runs[w][i] \in {"done", "failed"}
        /\ pc[w] \in {"done", "failed"} => /\ runs[w] # <<>>
                                          /\ runs[w][Len(runs[w])] = pc[w]
        /\ (pc[w] = "loop" /\ comboIx[w] = 0) =>
              /\ current_key_index[w] = 0
              /\ fetched[w] = <<>>
              /\ usage[w] = NoUsage /\ retries[w] = 0

\* a run failed, a feed request was answered from the store while it lay
\* failed, and the next run completed
C12_Witness ==
    \E w \in Workers :
        /\ runs[w] = <<"failed", "done">>
        /\ feed.by # "none"
        /\ w \in feed.failed
        /\ feed.result # <<>>

\* the combinations of the nested loop, in its order
AllFetched == [i \in 1 .. nCombos |-> i]

\* C13 (as stated): every run of the job calls fetch_videos exactly once for
\* every configured combination, and the rebuild starts only after all of
\* them returned.
C13_EveryRunFetchesAll ==
    \A w \in Workers :
        pc[w] \in {"index", "done", "failed"} => fetched[w] = AllFetched

\* C13 (amended): a run calls fetch_videos at most once per combination, in
\* the order of the configuration; the rebuild starts, and replaces any key,
\* only in a run that has called it for every combination and in which all
\* these calls have returned; a run that an exception ends at the job
\* boundary has called it for a prefix of the combinations and rebuilds
\* nothing further.
C13_FetchOnceThenRebuild ==
    \A w \in Workers :
        /\ fetched[w] = [i \in 1 .. comboIx[w] |-> i]
        /\ comboIx[w] <= nCombos
        /\ (pc[w] \in {"index", "done"} \/ keyIx[w] > 0) => fetched[w] = AllFetched
        /\ pc[w] = "done" => keyIx[w] = NumSegKeys

C13_Witness ==
    \E w \in Workers :
        /\ pc[w] = "done"
        /\ Len(fetched[w]) >= 2
        /\ fetched[w] = AllFetched
        /\ keyIx[w] = NumSegKeys
        /\ videos # <<>>

\* ----------------------------------------------------------- store claims
\* C14: the videos collection holds at most one document per video_id, a
\* video once ingested stays in it, and its document is, field by field, the
\* video_data of the most recent ingestion that saw the video id.
C14_LastWriterWins ==
    /\ \A i, j \in 1 .. Len(videos) : i # j => videos[i].video_id # videos[j].video_id
    /\ \A i \in 1 .. Len(videos) :
          /\ videos[i].video_id \in DOMAIN sighted
          /\ videos[i] = sighted[videos[i].video_id]
    /\ \A id \in DOMAIN sighted :
          sighted[id] # NoSight => \E i \in 1 .. Len(videos) : videos[i].video_id = id

\* a video ingested for one combination and later for another, on a later day
C14_Witness ==
    \E i \in 1 .. Len(videos) :
        /\ channels[videos[i].channel_id] # NoDoc
        /\ channels[videos[i].channel_id].language # videos[i].language
        /\ videos[i].created_at > 0

\* C15: a channel document, once created, is never changed by a later
\* sighting of its channel_id; it is created by a sighting, with the
\* channelTitle of the item seen and the state and language of that call,
\* and subscriber_count 0; there is one document per channel_id.
C15_FirstWriterWins ==
    [][\A c \in ChannelIds :
         /\ channels[c] # NoDoc => channels'[c] = channels[c]
         /\ (channels[c] = NoDoc /\ channels'[c] # NoDoc) =>
               \E i \in 1 .. Len(videos') :
                  /\ videos'[i].channel_id = c
                  /\ channels'[c] = [channel_id |-> c,
                                     channel_name |-> videos'[i].channel_title,
                                     language |-> videos'[i].language,
                                     primary_state |-> videos'[i].state,
                                     subscriber_count |-> 0]]_vars

\* a later sighting of the channel, with another title and language
C15_Witness ==
    \E i \in 1 .. Len(videos) :
        /\ channels[videos[i].channel_id] # NoDoc
        /\ channels[videos[i].channel_id].channel_name # videos[i].channel_title
        /\ channels[videos[i].channel_id].language # videos[i].language

\* ------------------------------------------------------- provider claims
\* C16: a provider call that times out (requests.get raises) is treated like
\* a 403: the credential used is charged the penalty of 10000 and the call
\* of fetch_videos is retried with a newly selected credential.
C16_TimeoutPenalisedAndRetried ==
    [][\A w \in Workers :
         (SearchRaises(w) \/ DetailRaises(w)) =>
            /\ api_key_usage'[usage[w].api_key].daily_quota_used =
                  api_key_usage[usage[w].api_key].daily_quota_used + PENALTY_COST
            /\ usage[w].api_key \in penalToday'
            /\ pc'[w] = "scan"]_vars

\* ---------------------------------------------------------- score claims
\* two stored videos scored at the same age, with the same short and region
\* flags
SameAgeAndFlags(a, b) ==
    /\ a.published_at = b.published_at /\ a.created_at = b.created_at
    /\ a.is_short = b.is_short
    /\ a.state = b.state /\ a.language = b.language
\* the engagement ratio of the specification, 0 when view_count is 0, equal
\* for both
SameEngagement(a, b) ==
    LET num(v) == IF v.view_count = 0 THEN 0 ELSE v.like_count + 2 * v.comment_count
        den(v) == IF v.view_count = 0 THEN 1 ELSE v.view_count
    IN num(a) * den(b) = num(b) * den(a)
MoreViews(a, b) ==
    (SameEngagement(a, b) /\ a.view_count < b.view_count)
        => RLess(a.viral_score, b.viral_score)
MoreLikesOrComments(a, b) ==
    /\ (/\ a.view_count = b.view_count /\ a.comment_count = b.comment_count
        /\ a.like_count < b.like_count) => RLess(a.viral_score, b.viral_score)
    /\ (/\ a.view_count = b.view_count /\ a.like_count = b.like_count
        /\ a.comment_count < b.comment_count) => RLess(a.viral_score, b.viral_score)

\* C17 (as stated): at equal age and flags the score strictly increases with
\* view_count at equal engagement ratio, and with like_count and with
\* comment_count at equal view_count, for every view_count, 0 included.
C17_MonotoneForEveryViewCount ==
    \A i, j \in 1 .. Len(videos) :
        SameAgeAndFlags(videos[i], videos[j]) =>
            /\ MoreViews(videos[i], videos[j])
            /\ MoreLikesOrComments(videos[i], videos[j])

\* C17 (amended): the same, the increase with like_count and comment_count
\* being for every view_count above 0; at view_count 0 the score is 0
\* whatever the likes and comments.
C17_MonotoneAboveZeroViews ==
    \A i, j \in 1 .. Len(videos) :
        SameAgeAndFlags(videos[i], videos[j]) =>
            /\ MoreViews(videos[i], videos[j])
            /\ videos[i].view_count > 0 => MoreLikesOrComments(videos[i], videos[j])
            /\ videos[i].view_count = 0 => videos[i].viral_score = Rat(0, 1)

C17_Witness ==
    \E i, j \in 1 .. Len(videos) :
        /\ SameAgeAndFlags(videos[i], videos[j])
        /\ videos[i].view_count = videos[j].view_count /\ videos[i].view_count > 0
        /\ videos[i].comment_count = videos[j].comment_count
        /\ videos[i].like_count < videos[j].like_count
        /\ RLess(videos[i].viral_score, videos[j].viral_score)

\* the canonical state / primary-language pairs of the specification
CanonicalPairs ==
    {<<"Maharashtra", "Marathi">>, <<"Tamil Nadu", "Tamil">>, <<"Andhra Pradesh", "Telugu">>,
     <<"Telangana", "Telugu">>, <<"Karnataka", "Kannada">>, <<"Kerala", "Malayalam">>,
     <<"West Bengal", "Bengali">>, <<"Gujarat", "Gujarati">>, <<"Punjab", "Punjabi">>}
\* the age at which a stored video was scored, in tenths of an hour, with the
\* floor of 0.1 hour
AgeTenths(v) ==
    LET t == 10 * (24 * v.created_at - v.published_at)
    IN IF t < 1 THEN 1 ELSE t
\* score = num / den with
\*   num = (views + 10 * (likes + 2 * comments)) * 10 * (3 or 2) * (6 or 5)
\*   den = age in tenths of an hour * 2 * 5
\* which is viewsPerHour * (1 + 10 * engagementRatio) * (1.5) * (1.2)
ScoreIs(v) ==
    LET base == IF v.view_count = 0 THEN 0
                ELSE v.view_count + 10 * (v.like_count + 2 * v.comment_count)
        num == base * 10 * (IF v.is_short THEN 3 ELSE 2)
                         * (IF <<v.state, v.language>> \in CanonicalPairs THEN 6 ELSE 5)
        den == AgeTenths(v) * 10
    IN /\ v.viral_score.d > 0
       /\ v.viral_score.n * den = v.viral_score.d * num
Plain(v, views, likes, comments, age) ==
    /\ v.view_count = views /\ v.like_count = likes /\ v.comment_count = comments
    /\ AgeTenths(v) = 10 * age
    /\ <<v.state, v.language>> \notin CanonicalPairs

\* C18: the stored viral_score is viewsPerHour * (1 + 10 * engagementRatio),
\* times 1.5 for a short and times 1.2 for a canonical (state, language)
\* pair, the ratio being 0 at view_count 0; 3600 views at age 1 h with no
\* likes or comments score 3600, 5400 when short, and 1000 views, 100 likes,
\* 50 comments at age 10 h score 300.
C18_ScoreFormula ==
    \A i \in 1 .. Len(videos) :
        LET v == videos[i]
        IN /\ ScoreIs(v)
           /\ (Plain(v, 3600, 0, 0, 1) /\ ~v.is_short) => v.viral_score = [n |-> 3600, d |-> 1]
           /\ (Plain(v, 3600, 0, 0, 1) /\ v.is_short) => v.viral_score = [n |-> 5400, d |-> 1]
           /\ (Plain(v, 1000, 100, 50, 10) /\ ~v.is_short) => v.viral_score = [n |-> 300, d |-> 1]

C18_Witness ==
    \E i, j \in 1 .. Len(videos) :
        /\ Plain(videos[i], 3600, 0, 0, 1) /\ ~videos[i].is_short
        /\ videos[i].viral_score = [n |-> 3600, d |-> 1]
        /\ Plain(videos[j], 3600, 0, 0, 1) /\ videos[j].is_short
        /\ videos[j].viral_score = [n |-> 5400, d |-> 1]

\* ---------------------------------------------------------- index claims
\* the entries of a key have the ranks 1..K in this order, by descending
\* score, with no video twice
Dense(entries) ==
    /\ \A r \in 1 .. Len(entries) : entries[r].rank = r
    /\ \A r \in 1 .. (Len(entries) - 1) : ~RLess(entries[r].score, entries[r + 1].score)
    /\ \A r, q \in 1 .. Len(entries) : r # q => entries[r].video_id # entries[q].video_id
\* the videos of the store matching a segmentation key
Matching(key) ==
    {i \in 1 .. Len(videos) :
        /\ key.viral_type \in {"STATE", "STATE_LANGUAGE"} => videos[i].state = key.state
        /\ key.viral_type \in {"LANGUAGE", "STATE_LANGUAGE"} => videos[i].language = key.language}
\* the entries are those of the K videos matching the key, one each
Complete(entries, key) ==
    /\ Len(entries) = Cardinality(Matching(key))
    /\ \A i \in Matching(key) :
          \E r \in 1 .. Len(entries) :
             /\ entries[r].video_id = videos[i].video_id
             /\ entries[r].score = videos[i].viral_score
             /\ entries[r].viral_type = key.viral_type
             /\ entries[r].state = key.state /\ entries[r].language = key.language

\* C19: the rank entries of every segmentation key are ranked 1..K without
\* gap or duplicate, by descending viral score, and when the rebuild
\* replaces the entries of a key they are those of the K videos that match
\* the key at that moment.
C19_RankDensity ==
    [][/\ \A k \in 1 .. NumSegKeys : Dense(viral_index'[k])
       /\ \A w \in Workers :
             keyIx'[w] = keyIx[w] + 1 =>
                Complete(viral_index'[keyIx'[w]], SegKeys[keyIx'[w]])]_vars

\* a rebuild has ranked two videos against their order in the store
C19_Witness ==
    /\ \E w \in Workers : pc[w] = "done"
    /\ Len(viral_index[1]) >= 2
    /\ Len(videos) >= 2
    /\ viral_index[1][1].video_id = videos[2].video_id
    /\ \E k \in 2 .. NumSegKeys : Len(viral_index[k]) = 0

\* ------------------------------------------------------ reordering claims
\* the documents of the video store, ignoring the timestamp and the order
\* of insertion
Contents(vs) ==
    {[f \in DOMAIN vs[i] \ {"created_at"} |-> vs[i][f]] : i \in 1 .. Len(vs)}
\* the stores after the item processing of one fetch_videos call (lines
\* 113-114) whose videos response holds the items of ids, for combination c
AfterSegment(st, ids, c) ==
    [videos |-> ProcessVideos(st.videos, ItemsFor(ids), c),
     channels |-> ProcessChannels(st.channels, ItemsFor(ids), c)]
SameContents(s1, s2) ==
    /\ Contents(s1.videos) = Contents(s2.videos)
    /\ s1.channels = s2.channels

\* C20: from the stores ingestion has left, processing the responses of two
\* combinations in one order or the other leaves the same video and channel
\* contents, timestamps aside.
C20_Reorderable ==
    LET st == [videos |-> videos, channels |-> channels]
    IN \A i, j \in 1 .. nCombos : \A ids1, ids2 \in IdLists :
          SameContents(AfterSegment(AfterSegment(st, ids1, Combo(i)), ids2, Combo(j)),
                       AfterSegment(AfterSegment(st, ids2, Combo(j)), ids1, Combo(i)))

\* -------------------------------------------------------- charging claims
\* the step charges key k exactly cost and writes no other credential
ChargesOnly(k, cost) ==
    /\ api_key_usage'[k].daily_quota_used = api_key_usage[k].daily_quota_used + cost
    /\ \A j \in KeyIx \ {k} : api_key_usage'[j] = api_key_usage[j]
\* job w's search call ends without the quota rejection (a rejection goes
\* back to the selection), and job w's detail call, once issued, ends
SearchNotRejected(w) == pc[w] = "search" /\ pc'[w] \in {"detail", "loop"}
DetailIssued(w) == pc[w] = "detail" /\ pc'[w] = "loop"

\* C21: a fetch_videos call whose search call is not quota-rejected charges
\* the selected credential exactly 100 for the search and, exactly when a
\* detail call is issued, exactly 1 more whatever the number of ids, and
\* charges no other credential.
C21_FlatCharges ==
    [][\A w \in Workers :
         /\ SearchNotRejected(w) => ChargesOnly(usage[w].api_key, SEARCH_COST)
         /\ DetailIssued(w) => ChargesOnly(usage[w].api_key, DETAIL_COST)]_vars

\* the same of the provider calls that answer
AnsweredCallsCharge ==
    [][\A w \in Workers :
         /\ (\E ok \in BOOLEAN, ids \in IdLists : SearchAnswered(w, ok, ids))
               => ChargesOnly(usage[w].api_key, SEARCH_COST)
         /\ (\E ok \in BOOLEAN : DetailAnswered(w, ok))
               => ChargesOnly(usage[w].api_key, DETAIL_COST)]_vars

\* ---------------------------------------------------- non-success claims
\* fetch_videos of job w returns [] to the loop of the job, which goes on:
\* no retry, no store written, the run not ended, the next combination next
ReturnsEmptyAndGoesOn(w) ==
    /\ pc'[w] = "loop"
    /\ retries'[w] = 0
    /\ UNCHANGED <<stores, comboIx, runs, fetched>>
\* get_next_active_key of job w returns None on this step
PoolExhausted(w) ==
    /\ pc[w] \in {"scan", "eval"}
    /\ lastSel'[w].done /\ lastSel'[w].ret = NoKey

\* C22: when the search call or the detail call answers with a status that is
\* neither success nor the quota rejection, or get_next_active_key finds no
\* credential, fetch_videos returns [] without a retry, writes neither the
\* videos nor the channels collection, and the job goes on with its next
\* combination.
C22_NonSuccessReturnsEmpty ==
    [][\A w \in Workers :
         (\/ \E ids \in IdLists : SearchAnswered(w, FALSE, ids)
          \/ DetailAnswered(w, FALSE)
          \/ PoolExhausted(w))
         => ReturnsEmptyAndGoesOn(w)]_vars

\* the detail call of the first combination was refused (search and detail
\* charged, nothing stored), the job called fetch_videos for the second, and
\* that call found the pool exhausted and returned to the loop
C22_Witness ==
    \E w \in Workers :
        /\ fetched[w] = <<1, 2>>
        /\ pc[w] = "loop"
        /\ lastSel[w].done /\ lastSel[w].ret = NoKey
        /\ \E k \in KeyIx : chargedToday[k] = SEARCH_COST + DETAIL_COST
        /\ videos = <<>>
        /\ runs[w] = <<>>

\* ------------------------------------------------------ issued-call claims
\* job w is about to issue, or has in flight, the search / the detail call
AtSearch(w) == pc[w] = "search"
AtDetail(w) == pc[w] = "detail"
StoredQuota(w) == api_key_usage[usage[w].api_key].daily_quota_used
Alone(w) == \A v \in Workers \ {w} : pc[v] = "off"

\* C23 (as stated): the search call and the detail call are both made with a
\* credential whose stored daily_quota_used is below QUOTA_LIMIT when the
\* call is issued.
C23_IssuedBelowLimit ==
    \A w \in Workers : (AtSearch(w) \/ AtDetail(w)) => StoredQuota(w) < QUOTA_LIMIT

\* C23 (amended): both calls are made with the credential the selection
\* returned, whose daily_quota_used as the selection read it (after the lazy
\* reset) is below QUOTA_LIMIT; the detail call is made after the search
\* charge with no new test, so with no other job running the stored
\* daily_quota_used is below QUOTA_LIMIT at the search call and below
\* QUOTA_LIMIT + 100 at the detail call.
C23_SelectedBelowLimit ==
    \A w \in Workers :
        /\ (AtSearch(w) \/ AtDetail(w)) =>
              /\ usage[w] # NoUsage
              /\ api_key_usage[usage[w].api_key].is_active
              /\ usage[w].daily_quota_used < QUOTA_LIMIT
        /\ AtSearch(w) /\ Alone(w) => StoredQuota(w) = usage[w].daily_quota_used
        /\ AtDetail(w) /\ Alone(w) =>
              StoredQuota(w) = usage[w].daily_quota_used + SEARCH_COST

\* a detail call issued with a credential at or above the limit
C23_Witness ==
    \E w \in Workers :
        /\ AtDetail(w)
        /\ video_ids[w] # <<>>
        /\ StoredQuota(w) >= QUOTA_LIMIT
        /\ usage[w].daily_quota_used < QUOTA_LIMIT

\* ----------------------------------------------------------- user claims
\* C24: no two documents of the users collection, of distinct uids, hold the
\* same username compared without case, whatever the requests of
\* register_user and their interleaving.
C24_UsernamesUnique ==
    \A i, j \in 1 .. Len(users) :
        i # j => LowerAll(users[i].username) # LowerAll(users[j].username)

====
